---- MODULE Spec2Model ----
(***************************************************************************)
(* A model of the message core of miraipp-library:                         *)
(*   - Message / MessageChain (src/mirai/core/message/message.{h,cpp}),    *)
(*   - the segment catalogue and match_types (segment.h, segment_fwd.h),   *)
(*   - the escaping grammar (Message::escape / Message::unescape),         *)
(*   - the event name table (src/mirai/core/events.h).                     *)
(* Strings are sequences of one-character strings; positions inside the    *)
(* string operators are zero-based, as in the C++ source.                  *)
(***************************************************************************)
EXTENDS Integers, Sequences, FiniteSets, TLC

VARIABLES
    a,      \* chain_ of the Message under test
    b,      \* chain_ of a second Message, used as the operand of += Message
    last,   \* the last call made on the Message: [op, arg, ret, pre]; pre is
            \* the chain before an append
    sv,     \* the std::string_view handed to escape / unescape
    esc,    \* the return value of escape(sv) (or "none")
    ret,    \* the outcome of the last unescape call (or "none")
    ev,     \* index of the active alternative of an Event value
    tag,    \* the name read from event_type_names for ev
    found,  \* the alternative a tag is resolved to
    ws      \* the ws::Client: its lifetime, the thread in connect or in the
            \* destructor, and the connections of the underlying endpoint

vars == <<a, b, last, sv, esc, ret, ev, tag, found, ws>>

(***************************************************************************)
(* Bounds of the model.                                                    *)
(***************************************************************************)
MaxStr == 3
MaxText == 2
MaxArg == 1
MaxChain == 3
MaxOperand == 2
MaxMatch == 2
MaxTerm == 2
MaxConn == 2

(***************************************************************************)
(* std::string_view helpers.                                               *)
(***************************************************************************)
npos == -1

\* s[i], zero-based
at(s, i) == s[i + 1]

\* std::string_view::find_first_of(chars, offset)
RECURSIVE find_first_of(_, _, _)
find_first_of(s, chars, offset) ==
    IF offset >= Len(s) THEN npos
    ELSE IF at(s, offset) \in chars THEN offset
    ELSE find_first_of(s, chars, offset + 1)

\* std::string_view::substr(offset, length), for offset <= size()
substr(s, offset, length) ==
    LET n == IF offset + length > Len(s) THEN Len(s) - offset ELSE length
    IN  SubSeq(s, offset + 1, offset + n)

(***************************************************************************)
(* Message::escape                                                         *)
(***************************************************************************)
\* a scan that does not stop at the opening bracket
EscapeSetNoOpen == {"\\", "]", "{", "}"}

\* a scan that stops at the backslash and the brackets only
EscapeSetNoBraces == {"\\", "[", "]"}

\* the characters find_first_of stops at
EscapeSet == {"\\", "[", "]", "{", "}"}

RECURSIVE escape_loop(_, _, _)
escape_loop(unescaped, offset, result) ==
    LET pos == find_first_of(unescaped, EscapeSet, offset) IN
    IF pos = npos
    THEN result \o substr(unescaped, offset, Len(unescaped))
    ELSE LET length == pos - offset
             r1 == result \o substr(unescaped, offset, length)
             c  == at(unescaped, pos)
             r2 == CASE c = "\\" -> r1 \o <<"\\", "\\">>
                      [] c = "["  -> r1 \o <<"\\", "[">>
                      [] c = "]"  -> r1 \o <<"\\", "]">>
                      [] c = "{"  -> r1 \o <<"[", "[">>
                      [] c = "}"  -> r1 \o <<"]", "]">>
                      [] OTHER    -> r1
         IN  escape_loop(unescaped, pos + 1, r2)

\* an escape that returns its argument
escape_unescaped(unescaped) == unescaped

\* an escape that leaves out the characters it stops at
escape_dropping(unescaped) == SelectSeq(unescaped, LAMBDA c : c \notin EscapeSet)

escape(unescaped) == escape_loop(unescaped, 0, <<>>)

(***************************************************************************)
(* Message::unescape.  The outcome is a record                             *)
(*   [status, str, oob]                                                    *)
(* status "ok": str is the returned string; "RuntimeError": the escape     *)
(* error was thrown; "out_of_range": the final substr(offset) was called   *)
(* with offset > size().  oob says that escaped[pos + 1] was read with     *)
(* pos + 1 = size(), an access outside the view; `past` is the byte such   *)
(* a read yields.                                                          *)
(***************************************************************************)
UnescapeSet == {"\\", "["}

Thrown(kind, oob) == [status |-> kind, str |-> <<>>, oob |-> oob]

RECURSIVE unescape_loop(_, _, _, _, _)
unescape_loop(escaped, offset, result, oob, past) ==
    LET pos == find_first_of(escaped, UnescapeSet, offset) IN
    IF pos = npos
    THEN IF offset > Len(escaped)
         THEN Thrown("out_of_range", oob)
         ELSE [status |-> "ok",
               str |-> result \o substr(escaped, offset, Len(escaped)),
               oob |-> oob]
    ELSE LET length == pos - offset IN
         IF length = Len(escaped) - 1
         THEN Thrown("RuntimeError", oob)
         ELSE LET r1        == result \o substr(escaped, offset, length)
                  readsPast == pos + 1 >= Len(escaped)
                  next      == IF readsPast THEN past ELSE at(escaped, pos + 1)
                  oob1      == oob \/ readsPast
                  c         == at(escaped, pos)
              IN  IF c = "["
                  THEN IF next # "["
                       THEN Thrown("RuntimeError", oob1)
                       ELSE unescape_loop(escaped, pos + 2, r1 \o <<"{">>, oob1, past)
                  ELSE IF c = "]"
                  THEN IF next # "]"
                       THEN Thrown("RuntimeError", oob1)
                       ELSE unescape_loop(escaped, pos + 2, r1 \o <<"}">>, oob1, past)
                  ELSE IF next # "\\" /\ next # "[" /\ next # "]"
                       THEN Thrown("RuntimeError", oob1)
                       ELSE unescape_loop(escaped, pos + 2, r1 \o <<next>>, oob1, past)

unescape(escaped, past) == unescape_loop(escaped, 0, <<>>, FALSE, past)

(***************************************************************************)
(* Finite sequences over a set, up to a length.                            *)
(***************************************************************************)
SeqsUpTo(S, n) == UNION {[1..k -> S] : k \in 0..n}

(***************************************************************************)
(* The segment catalogue (segment.h).  A std::optional is a sequence of    *)
(* length 0 (nullopt) or 1.                                                *)
(***************************************************************************)
At(target, display) == [type |-> "At", target |-> target, display |-> display]
AtAll == [type |-> "AtAll"]
Face(face_id, name) == [type |-> "Face", face_id |-> face_id, name |-> name]
Plain(text) == [type |-> "Plain", text |-> text]
Image(image_id, url, path) ==
    [type |-> "Image", image_id |-> image_id, url |-> url, path |-> path]
FlashImage(image_id, url, path) ==
    [type |-> "FlashImage", image_id |-> image_id, url |-> url, path |-> path]
Xml(xml) == [type |-> "Xml", xml |-> xml]
Json(json) == [type |-> "Json", json |-> json]
App(content) == [type |-> "App", content |-> content]
Poke(name) == [type |-> "Poke", name |-> name]

\* msg::Variant: the alternatives of Segment, in declaration order
Variant == <<"At", "AtAll", "Face", "Plain", "Image",
             "FlashImage", "Xml", "Json", "App", "Poke">>

\* enum class SegmentType, in declaration order (max_value excluded)
SegmentType == <<"at", "at_all", "face", "plain", "image",
                 "flash_image", "xml", "json", "app", "poke">>

\* msg::detail::MsgTuple
MsgTuple == <<"Source", "Quote", "At", "AtAll", "Face",
              "Plain", "Image", "FlashImage", "Xml", "Json", "App", "Poke">>

\* position of x in sequence s (zero-based), for x occurring in s
IndexOf(s, x) == (CHOOSE i \in 1..Len(s) : s[i] = x) - 1

\* VariantWrapper::kind(): the enum value at the index of the active alternative
kind(seg) == SegmentType[IndexOf(Variant, seg.type) + 1]

\* detail::segment_type<T>: tuple_element_t<static_cast<size_t>(T), MsgTuple>
segment_type(T) == MsgTuple[IndexOf(SegmentType, T) + 1]

\* VariantWrapper::get_if<T>(): a pointer to the alternative, null unless T is active
get_if(seg, T) == IF seg.type = T THEN <<seg>> ELSE <<>>

is_plain(seg) == seg.type = "Plain"

(***************************************************************************)
(* operator== of the alternatives and of Segment.                          *)
(***************************************************************************)
ImageEq(lhs, rhs) ==
    IF lhs.image_id # <<>> /\ rhs.image_id # <<>> THEN lhs.image_id = rhs.image_id
    ELSE IF lhs.url # <<>> /\ rhs.url # <<>> THEN lhs.url = rhs.url
    ELSE lhs.path = rhs.path

FaceEq(lhs, rhs) ==
    IF lhs.face_id # <<>> /\ rhs.face_id # <<>> THEN lhs.face_id = rhs.face_id
    ELSE lhs.name = rhs.name

SegmentEq(lhs, rhs) ==
    /\ lhs.type = rhs.type
    /\ CASE lhs.type = "At"         -> lhs.target = rhs.target
         [] lhs.type = "AtAll"      -> TRUE
         [] lhs.type = "Face"       -> FaceEq(lhs, rhs)
         [] lhs.type = "Plain"      -> lhs.text = rhs.text
         [] lhs.type = "Image"      -> ImageEq(lhs, rhs)
         [] lhs.type = "FlashImage" -> ImageEq(lhs, rhs)
         [] lhs.type = "Xml"        -> lhs.xml = rhs.xml
         [] lhs.type = "Json"       -> lhs.json = rhs.json
         [] lhs.type = "App"        -> lhs.content = rhs.content
         [] lhs.type = "Poke"       -> lhs.name = rhs.name

\* operator==(const Message&, const Message&): std::vector equality
MessageEq(lhs, rhs) ==
    /\ Len(lhs) = Len(rhs)
    /\ \A i \in 1..Len(lhs) : SegmentEq(lhs[i], rhs[i])

(***************************************************************************)
(* Construction, assignment and append (message.cpp 9-89).                 *)
(***************************************************************************)
\* combine_adjacent_text: one left-to-right scan merging each run of Plain
RECURSIVE combine_adjacent_text(_)
combine_adjacent_text(chain) ==
    IF Len(chain) <= 1 THEN chain
    ELSE IF is_plain(chain[1]) /\ is_plain(chain[2])
    THEN combine_adjacent_text(
             <<Plain(chain[1].text \o chain[2].text)>> \o Tail(Tail(chain)))
    ELSE <<chain[1]>> \o combine_adjacent_text(Tail(chain))

\* a constructor that stores the chain as given
from_chain_unmerged(chain) == chain

\* Message::Message(MessageChain), and Message(Segments&&...) through it
from_chain(chain) == combine_adjacent_text(chain)

\* Message::operator=(MessageChain)
assign_chain(chain) == combine_adjacent_text(chain)

\* Message::Message(const Segment&) and Message::operator=(const Segment&)
from_segment(segment) == <<segment>>

\* Message::Message(std::string_view) and Message::operator=(std::string_view)
from_text(plain_text) == <<Plain(plain_text)>>

\* an append of text that overwrites the text of a last Plain
append_text_replacing(chain_, plain_text) ==
    IF chain_ # <<>> /\ chain_[Len(chain_)].type = "Plain"
    THEN [chain_ EXCEPT ![Len(chain_)].text = plain_text]
    ELSE Append(chain_, Plain(plain_text))

\* an append of text that always pushes a new element
append_text_pushing(chain_, plain_text) == Append(chain_, Plain(plain_text))

\* Message::operator+=(std::string_view)
append_text(chain_, plain_text) ==
    IF chain_ # <<>> /\ is_plain(chain_[Len(chain_)])
    THEN [chain_ EXCEPT ![Len(chain_)].text = @ \o plain_text]
    ELSE Append(chain_, Plain(plain_text))

\* an append of a segment that always pushes a new element
append_segment_pushing(chain_, segment) == Append(chain_, segment)

\* Message::operator+=(const Segment&) and Message::operator+=(Segment&&)
append_segment(chain_, segment) ==
    IF is_plain(segment)
    THEN append_text(chain_, segment.text)
    ELSE Append(chain_, segment)

\* an append of a chain that inserts the whole chain after appending its front
append_chain_whole(chain_, chain) ==
    IF chain = <<>> THEN chain_
    ELSE (IF chain[1].type = "Plain"
          THEN append_text(chain_, chain[1].text)
          ELSE Append(chain_, chain[1])) \o chain

\* an append of a chain that merges every run of Plain of the result
append_chain_merging(chain_, chain) == combine_adjacent_text(chain_ \o chain)

\* Message::operator+=(const MessageChain&) / (MessageChain&&), chain not chain_
append_chain(chain_, chain) ==
    IF chain = <<>> THEN chain_
    ELSE append_segment(chain_, chain[1]) \o Tail(chain)

\* adp::Concatenate<Message, Message>: operator+(T lhs, const U& rhs), with
\* lhs a copy of the left operand
plus(lhs, rhs) == append_chain(lhs, rhs)

\* Message::operator+=(const Message&) with message being *this: chain aliases
\* chain_, so the inserted range [next(begin()), end()) is read from the vector
\* being inserted into, after the front element was appended.  The standard
\* leaves that insert undefined; the outcomes are the range as it stands after
\* the front was appended, or the range as it stood at the call.
self_append_outcomes(chain_) ==
    IF chain_ = <<>> THEN {chain_}
    ELSE LET grown == append_segment(chain_, chain_[1])
         IN  {grown \o Tail(grown), grown \o Tail(chain_)}

(***************************************************************************)
(* Queries (message.cpp 91-158).  A query returns [fault, val]: fault is   *)
(* set when a segment is read as an alternative that is not its active     *)
(* one (get_plain of a segment that is not Plain).                         *)
(***************************************************************************)
Ok(v) == [fault |-> FALSE, val |-> v]
BadAccess == [fault |-> TRUE, val |-> FALSE]

\* get_plain(segment): the text of a Plain segment
get_plain(seg) ==
    IF is_plain(seg) THEN [fault |-> FALSE, val |-> seg.text]
    ELSE [fault |-> TRUE, val |-> <<>>]

\* utils::starts_with / utils::ends_with / std::string::find(...) != npos
utils_starts_with(str, text) ==
    Len(text) <= Len(str) /\ SubSeq(str, 1, Len(text)) = text
utils_ends_with(str, text) ==
    Len(text) <= Len(str) /\ SubSeq(str, Len(str) - Len(text) + 1, Len(str)) = text
string_contains(str, text) ==
    \E i \in 0..(Len(str) - Len(text)) : SubSeq(str, i + 1, i + Len(text)) = text

\* an equality that looks at the front element only
eq_text_front(chain_, rhs) ==
    IF chain_ = <<>> \/ ~is_plain(chain_[1]) THEN Ok(FALSE)
    ELSE Ok(chain_[1].text = rhs)

\* operator==(const Message&, std::string_view)
eq_text(chain_, rhs) ==
    IF Len(chain_) # 1 \/ ~is_plain(chain_[1]) THEN Ok(FALSE)
    ELSE LET p == get_plain(chain_[1])
         IN  IF p.fault THEN BadAccess ELSE Ok(p.val = rhs)

\* adp::Equal<Message, std::string_view>: operator==(const U& lhs, const T& rhs)
text_eq(lhs, chain_) == eq_text(chain_, lhs)

\* a starts_with that compares the whole front text
starts_with_whole(chain_, text) ==
    IF chain_ = <<>> \/ ~is_plain(chain_[1]) THEN Ok(FALSE)
    ELSE Ok(chain_[1].text = text)

\* Message::starts_with(std::string_view)
starts_with(chain_, text) ==
    IF chain_ = <<>> \/ ~is_plain(chain_[1]) THEN Ok(FALSE)
    ELSE LET p == get_plain(chain_[1])
         IN  IF p.fault THEN BadAccess ELSE Ok(utils_starts_with(p.val, text))

\* an extract_text that stops after the first Plain
RECURSIVE extract_text_first(_)
extract_text_first(chain_) ==
    IF chain_ = <<>> THEN <<>>
    ELSE IF is_plain(chain_[1]) THEN chain_[1].text
    ELSE extract_text_first(Tail(chain_))

\* Message::extract_text(): for each node in order, dispatch appends the text
\* when the node is a Plain and does nothing otherwise
RECURSIVE extract_text(_)
extract_text(chain_) ==
    IF chain_ = <<>> THEN <<>>
    ELSE (IF is_plain(chain_[1]) THEN chain_[1].text ELSE <<>>)
             \o extract_text(Tail(chain_))

\* msg::At::stringify(): the reference block of a mention, "{at:<target>}"
at_stringify(seg) == <<"{", "a", "t", ":", ToString(seg.target), "}">>

\* seg.stringify() of the active alternative, for the alternatives a stored
\* chain holds here: Plain, AtAll and At
segment_stringify(seg) ==
    CASE seg.type = "Plain" -> escape(seg.text)
      [] seg.type = "AtAll" -> <<"{", "a", "t", "_", "a", "l", "l", "}">>
      [] seg.type = "At"    -> at_stringify(seg)

\* Message::stringify(): the segments' strings written to the stream in order
RECURSIVE stringify(_)
stringify(chain_) ==
    IF chain_ = <<>> THEN <<>>
    ELSE segment_stringify(chain_[1]) \o stringify(Tail(chain_))

\* Message::starts_with(const Segment&)
starts_with_segment(chain_, segment) ==
    IF is_plain(segment) THEN starts_with(chain_, segment.text)
    ELSE IF chain_ = <<>> THEN Ok(FALSE)
    ELSE Ok(SegmentEq(chain_[1], segment))

\* Message::ends_with(std::string_view)
ends_with(chain_, text) ==
    IF chain_ = <<>> \/ ~is_plain(chain_[Len(chain_)]) THEN Ok(FALSE)
    ELSE LET p == get_plain(chain_[1])
         IN  IF p.fault THEN BadAccess ELSE Ok(utils_ends_with(p.val, text))

\* an ends_with that compares the argument with the front element
ends_with_segment_front(chain_, segment) ==
    IF is_plain(segment) THEN ends_with(chain_, segment.text)
    ELSE IF chain_ = <<>> THEN Ok(FALSE)
    ELSE Ok(SegmentEq(chain_[1], segment))

\* Message::ends_with(const Segment&)
ends_with_segment(chain_, segment) ==
    IF is_plain(segment) THEN ends_with(chain_, segment.text)
    ELSE IF chain_ = <<>> THEN Ok(FALSE)
    ELSE Ok(SegmentEq(chain_[Len(chain_)], segment))

\* Message::contains(std::string_view)
contains(chain_, text) ==
    Ok(\E i \in 1..Len(chain_) :
          is_plain(chain_[i]) /\ string_contains(chain_[i].text, text))

\* Message::contains(const Segment&)
contains_segment(chain_, segment) ==
    IF is_plain(segment) THEN contains(chain_, segment.text)
    ELSE Ok(\E i \in 1..Len(chain_) : SegmentEq(chain_[i], segment))

(***************************************************************************)
(* match_types (segment.h 300-318, message.h 384-401).  The result is      *)
(* [present, refs]; refs[i] is the reference taken for position i: the     *)
(* index into the chain, the alternative it is read as, and the value.     *)
(***************************************************************************)
Absent == [present |-> FALSE, refs |-> <<>>]

\* a match that accepts a chain longer than the type list
match_types_impl_prefix(chain_, Ts) ==
    IF Len(chain_) < Len(Ts) THEN Absent
    ELSE LET ptrs == [i \in 1..Len(Ts) |-> get_if(chain_[i], Ts[i])]
         IN  IF \E i \in 1..Len(Ts) : ptrs[i] = <<>> THEN Absent
             ELSE [present |-> TRUE,
                   refs |-> [i \in 1..Len(Ts) |->
                               [idx |-> i - 1, as |-> Ts[i], value |-> ptrs[i][1]]]]

\* detail::match_types_impl<Ts...>
match_types_impl(chain_, Ts) ==
    IF Len(chain_) # Len(Ts) THEN Absent
    ELSE LET ptrs == [i \in 1..Len(Ts) |-> get_if(chain_[i], Ts[i])]
         IN  IF \E i \in 1..Len(Ts) : ptrs[i] = <<>> THEN Absent
             ELSE [present |-> TRUE,
                   refs |-> [i \in 1..Len(Ts) |->
                               [idx |-> i - 1, as |-> Ts[i], value |-> ptrs[i][1]]]]

\* Message::match_types<Ts...>()
match_types(chain_, Ts) == match_types_impl(chain_, Ts)

\* Message::match_types<SegmentType... Ts>()
match_types_enum(chain_, Ks) ==
    match_types(chain_, [i \in 1..Len(Ks) |-> segment_type(Ks[i])])

(***************************************************************************)
(* The event catalogue (events.h 369-411).                                 *)
(***************************************************************************)
EventVariant == <<
    "GroupMessage", "FriendMessage", "TempMessage",
    "BotOnlineEvent", "BotOfflineEventActive", "BotOfflineEventForce",
    "BotOfflineEventDropped", "BotReloginEvent", "GroupRecallEvent",
    "FriendRecallEvent", "BotGroupPermissionChangeEvent",
    "BotMuteEvent", "BotUnmuteEvent", "BotJoinGroupEvent", "BotLeaveEventActive",
    "BotLeaveEventKick", "GroupNameChangeEvent",
    "GroupEntranceAnnouncementChangeEvent", "GroupMuteAllEvent",
    "GroupAllowAnonymousChatEvent", "GroupAllowConfessTalkEvent",
    "GroupAllowMemberInviteEvent", "MemberJoinEvent", "MemberLeaveEventKick",
    "MemberLeaveEventQuit", "MemberCardChangeEvent",
    "MemberSpecialTitleChangeEvent", "MemberPermissionChangeEvent",
    "MemberMuteEvent", "MemberUnmuteEvent",
    "NewFriendRequestEvent", "MemberJoinRequestEvent" >>

\* enum class EventType, in declaration order (max_value excluded)
EventType == <<
    "group_message", "friend_message", "temp_message",
    "bot_online_event", "bot_offline_event_active", "bot_offline_event_force",
    "bot_offline_event_dropped", "bot_relogin_event", "group_recall_event",
    "friend_recall_event", "bot_group_permission_change_event",
    "bot_mute_event", "bot_unmute_event", "bot_join_group_event",
    "bot_leave_event_active", "bot_leave_event_kick",
    "group_name_change_event", "group_entrance_announcement_change_event",
    "group_mute_all_event", "group_allow_anonymous_chat_event",
    "group_allow_confess_talk_event", "group_allow_member_invite_event",
    "member_join_event", "member_leave_event_kick", "member_leave_event_quit",
    "member_card_change_event", "member_special_title_change_event",
    "member_permission_change_event", "member_mute_event",
    "member_unmute_event", "new_friend_request_event",
    "member_join_request_event" >>

\* the initializers written for event_type_names
event_type_names_init == <<
    "GroupMessage", "FriendMessage", "TempMessage",
    "BotOnlineEvent", "BotOfflineEventActive", "BotOfflineEventForce",
    "BotOfflineEventDropped", "BotReloginEvent", "GroupRecallEvent",
    "FriendRecallEvent", "BotGroupPermissionChangeEvent",
    "BotMuteEvent", "BotUnmuteEvent", "BotJoinGroupEvent", "GroupNameChangeEvent",
    "GroupEntranceAnnouncementChangeEvent", "GroupMuteAllEvent",
    "GroupAllowAnonymousChatEvent", "GroupAllowConfessTalkEvent",
    "GroupAllowMemberInviteEvent", "MemberJoinEvent",
    "MemberLeaveEventKick", "MemberLeaveEventQuit", "MemberCardChangeEvent",
    "MemberSpecialTitleChangeEvent", "MemberPermissionChangeEvent",
    "MemberMuteEvent", "MemberUnmuteEvent",
    "NewFriendRequestEvent", "MemberJoinRequestEvent" >>

\* std::array<std::string_view, std::variant_size_v<EventVariant>>: aggregate
\* initialization leaves the elements without an initializer empty
event_type_names ==
    [k \in 1..Len(EventVariant) |->
        IF k <= Len(event_type_names_init) THEN event_type_names_init[k] ELSE ""]

\* the name of the alternative with discriminant k (zero-based)
type_name(k) == event_type_names[k + 1]

\* the discriminant a tag resolves to: first table entry equal to it, or npos
find_type(name) ==
    IF \E k \in 1..Len(event_type_names) : event_type_names[k] = name
    THEN (CHOOSE k \in 1..Len(event_type_names) :
             /\ event_type_names[k] = name
             /\ \A j \in 1..(k - 1) : event_type_names[j] # name) - 1
    ELSE npos

(***************************************************************************)
(* Inputs of the operations.                                               *)
(***************************************************************************)
Alphabet == {"a", "b"}
Texts == SeqsUpTo(Alphabet, MaxText)
TextArgs == SeqsUpTo(Alphabet, MaxArg)
NonPlainArgs == {At(1, <<>>), At(1, <<"d">>), At(2, <<>>), AtAll}
SegmentArgs == {Plain(t) : t \in TextArgs} \cup NonPlainArgs
ChainArgs == SeqsUpTo(SegmentArgs, MaxChain)
QuerySegments == {Plain(t) : t \in Texts} \cup NonPlainArgs

\* one value of each alternative of Segment, for match_types
KindArgs == {At(1, <<>>), AtAll, Face(<<0>>, <<>>), Plain(<<"a">>),
             Image(<<"i">>, <<>>, <<>>), FlashImage(<<>>, <<"u">>, <<>>),
             Xml(<<"x">>), Json(<<"j">>), App(<<"c">>), Poke(<<"p">>)}
MatchChainArgs == SeqsUpTo(KindArgs, MaxMatch)
Range(s) == {s[i] : i \in 1..Len(s)}
TypeLists == SeqsUpTo(Range(MsgTuple), MaxMatch)
KindLists == SeqsUpTo(Range(SegmentType), MaxMatch)

\* the bytes of the strings handed to escape / unescape, and the bytes a read
\* one past the end of the view can yield (the terminator or any other byte)
EscAlphabet == {"\\", "[", "]", "{", "}", "a"}
StringArgs == SeqsUpTo(EscAlphabet, MaxStr)
PastBytes == EscAlphabet \cup {"NUL"}

\* the chains a stringified Message is constructed from: texts over the bytes
\* of the escaping grammar, a mention and a mention of everyone
StringifyArgs ==
    SeqsUpTo({Plain(t) : t \in SeqsUpTo(EscAlphabet, MaxArg)}
                 \cup {At(1, <<>>), AtAll}, MaxOperand)

\* the operands of Segment == Segment: every combination of populated fields
\* of Image, FlashImage and Face, and values of other alternatives
OptStrings == {<<>>, <<"p">>, <<"q">>}
OptIds == {<<>>, <<0>>, <<1>>}
ImageArgs == {Image(i, u, p) : i \in OptStrings, u \in OptStrings, p \in OptStrings}
FlashImageArgs ==
    {FlashImage(i, u, p) : i \in OptStrings, u \in OptStrings, p \in OptStrings}
FaceArgs == {Face(f, n) : f \in OptIds, n \in OptStrings}
EqArgs ==
    ImageArgs \cup FlashImageArgs \cup FaceArgs
        \cup {At(1, <<>>), At(1, <<"d">>), AtAll, Plain(<<"a">>)}

\* the operands of operator+: Messages that satisfy the merge invariant
TermSegments ==
    {Plain(<<>>), Plain(<<"a">>), Plain(<<"{">>), At(1, <<>>), AtAll}
TermArgs ==
    {m \in SeqsUpTo(TermSegments, MaxTerm) :
        \A i \in 1..(Len(m) - 1) : ~(is_plain(m[i]) /\ is_plain(m[i + 1]))}

Bounded(chain, n) ==
    /\ Len(chain) <= n
    /\ \A i \in 1..Len(chain) : is_plain(chain[i]) => Len(chain[i].text) <= MaxText

(***************************************************************************)
(* State.                                                                  *)
(***************************************************************************)
NoCall == [op |-> "none", arg |-> <<>>, ret |-> Ok(FALSE), pre |-> <<>>]
NoEsc == [set |-> FALSE, str |-> <<>>]
NoRet == [of |-> "none", status |-> "none", str |-> <<>>, oob |-> FALSE]
NoTag == [set |-> FALSE, of |-> 0, name |-> ""]
NoFound == [set |-> FALSE, of |-> "", idx |-> npos]

\* no ws::Client constructed
NoClient ==
    [state |-> "none", perpetual |-> FALSE, pc |-> 0, i |-> 0, closing |-> FALSE,
     conns |-> <<>>, closeLog |-> <<>>, thrown |-> FALSE, propagated |-> FALSE]

Idle ==
    /\ a = <<>> /\ b = <<>> /\ last = NoCall
    /\ sv = <<>> /\ esc = NoEsc /\ ret = NoRet
    /\ ev = 0 /\ tag = NoTag /\ found = NoFound /\ ws = NoClient

\* Message(): an empty chain
Init == Idle

strVars == <<sv, esc, ret>>
evVars == <<ev, tag, found>>

\* a mutation of the Message: the new chain and the record of the call
Mutate(op, arg, pre, chain) ==
    /\ Bounded(chain, MaxChain)
    /\ a' = chain
    /\ last' = [op |-> op, arg |-> arg, ret |-> Ok(TRUE), pre |-> pre]
    /\ UNCHANGED <<b, strVars, evVars, ws>>

\* a const member function called on a Message: the record of the call
Query(op, arg, result) ==
    /\ last' = [op |-> op, arg |-> arg, ret |-> result, pre |-> <<>>]
    /\ UNCHANGED <<a, b, strVars, evVars, ws>>

\* no call was recorded yet.  The queries are const members, so one call per
\* behaviour reaches every (Message, argument) pair.
Fresh == last.op = NoCall.op

(***************************************************************************)
(* Constructors and assignments.                                           *)
(***************************************************************************)
DefaultConstruct == Mutate("Message()", <<>>, <<>>, <<>>)
ConstructChain == \E c \in ChainArgs : Mutate("Message(chain)", c, <<>>, from_chain(c))
AssignChain == \E c \in ChainArgs : Mutate("=chain", c, <<>>, assign_chain(c))
ConstructSegment == \E s \in SegmentArgs : Mutate("Message(segment)", s, <<>>, from_segment(s))
AssignSegment == \E s \in SegmentArgs : Mutate("=segment", s, <<>>, from_segment(s))
ConstructText == \E t \in TextArgs : Mutate("Message(text)", t, <<>>, from_text(t))
AssignText == \E t \in TextArgs : Mutate("=text", t, <<>>, from_text(t))

(***************************************************************************)
(* Appends.                                                                *)
(***************************************************************************)
AppendText == \E t \in TextArgs : Mutate("+=text", t, a, append_text(a, t))
AppendSegment == \E s \in SegmentArgs : Mutate("+=segment", s, a, append_segment(a, s))
\* the chains worth appending: a longer one leaves more than MaxChain elements
AppendChainArgs ==
    SeqsUpTo(SegmentArgs, IF a = <<>> THEN MaxChain ELSE MaxChain + 1 - Len(a))
AppendChain == \E c \in AppendChainArgs : Mutate("+=chain", c, a, append_chain(a, c))
AppendMessage == Mutate("+=message", b, a, append_chain(a, b))
SelfAppend == \E c \in self_append_outcomes(a) : Mutate("+=self", a, a, c)

\* the same operations on the second Message
MutateOperand(chain) ==
    /\ Bounded(chain, MaxOperand)
    /\ b' = chain
    /\ UNCHANGED <<a, last, strVars, evVars, ws>>

\* Message other(chain): the second Message constructed from a chain
OperandArgs ==
    SeqsUpTo(SegmentArgs,
             IF MaxOperand < MaxChain + 1 - Len(a) THEN MaxOperand
             ELSE MaxChain + 1 - Len(a))
OperandConstruct == \E c \in OperandArgs : MutateOperand(from_chain(c))

OperandAppendText == \E t \in TextArgs : MutateOperand(append_text(b, t))
OperandAppendSegment == \E s \in SegmentArgs : MutateOperand(append_segment(b, s))
OperandAppendMessage == MutateOperand(append_chain(b, a))

(***************************************************************************)
(* Writes through the mutable accessors: chain(), operator[], begin().     *)
(***************************************************************************)
ChainPushBack == \E s \in SegmentArgs : Mutate("chain().push_back", s, <<>>, Append(a, s))
IndexWrite ==
    \E i \in 1..Len(a), s \in SegmentArgs :
        Mutate("[]=", <<i - 1, s>>, <<>>, [a EXCEPT ![i] = s])

(***************************************************************************)
(* Queries.                                                                *)
(***************************************************************************)
EqText == Fresh /\ \E t \in Texts : Query("==text", t, eq_text(a, t))
TextEq == Fresh /\ \E t \in Texts : Query("text==", t, text_eq(t, a))
ExtractText == Fresh /\ Query("extract_text", <<>>, Ok(extract_text(a)))
StartsWithText == Fresh /\ \E t \in Texts : Query("starts_with", t, starts_with(a, t))
StartsWithSegment ==
    Fresh /\ \E s \in QuerySegments : Query("starts_with(segment)", s, starts_with_segment(a, s))
EndsWithText == Fresh /\ \E t \in Texts : Query("ends_with", t, ends_with(a, t))
EndsWithSegment ==
    Fresh /\ \E s \in QuerySegments : Query("ends_with(segment)", s, ends_with_segment(a, s))
ContainsText == Fresh /\ \E t \in Texts : Query("contains", t, contains(a, t))
ContainsSegment ==
    Fresh /\ \E s \in QuerySegments : Query("contains(segment)", s, contains_segment(a, s))

\* (a + b) + c, a and b being the two Messages
PlusPlus ==
    Fresh /\ \E c \in TermArgs : Query("(a+b)+c", c, Ok(plus(plus(a, b), c)))

\* (a + b).stringify() and (a + b).extract_text()
PlusStringify == Fresh /\ Query("(a+b).stringify()", b, Ok(stringify(plus(a, b))))
PlusExtractText ==
    Fresh /\ Query("(a+b).extract_text()", b, Ok(extract_text(plus(a, b))))

\* operator==(const Segment&, const Segment&)
SegmentEquals ==
    Fresh /\ \E x \in EqArgs, y \in EqArgs :
                Query("segment==", <<x, y>>, Ok(SegmentEq(x, y)))

Stringify == Fresh /\ Query("stringify", <<>>, Ok(stringify(a)))

\* unescape(m.stringify())
UnescapeStringified ==
    /\ last.op = "stringify"
    /\ \E past \in PastBytes :
          ret' = [of |-> "stringify"] @@ unescape(last.ret.val, past)
    /\ UNCHANGED <<a, b, last, sv, esc, evVars, ws>>

MatchTypes == Fresh /\ \E Ts \in TypeLists : Query("match_types", Ts, match_types(a, Ts))
MatchTypesEnum ==
    Fresh /\ \E Ks \in KindLists : Query("match_types(enum)", Ks, match_types_enum(a, Ks))

(***************************************************************************)
(* escape / unescape calls.                                                *)
(***************************************************************************)
EscapeCall ==
    /\ esc' = [set |-> TRUE, str |-> escape(sv)]
    /\ UNCHANGED <<a, b, last, sv, ret, evVars, ws>>

\* unescape(escape(sv))
UnescapeEscaped ==
    /\ esc.set
    /\ \E past \in PastBytes :
          ret' = [of |-> "esc"] @@ unescape(esc.str, past)
    /\ UNCHANGED <<a, b, last, sv, esc, evVars, ws>>

\* unescape(sv)
UnescapeCall ==
    /\ \E past \in PastBytes :
          ret' = [of |-> "sv"] @@ unescape(sv, past)
    /\ UNCHANGED <<a, b, last, sv, esc, evVars, ws>>

(***************************************************************************)
(* Events: an Event holding alternative k, its name, and the resolution    *)
(* of a name back to an alternative.                                       *)
(***************************************************************************)
MakeEvent ==
    /\ \E k \in 0..(Len(EventVariant) - 1) : ev' = k
    /\ UNCHANGED <<a, b, last, strVars, tag, found, ws>>

TypeName ==
    /\ tag' = [set |-> TRUE, of |-> ev, name |-> type_name(ev)]
    /\ UNCHANGED <<a, b, last, strVars, ev, found, ws>>

FindType ==
    /\ tag.set
    /\ found' = [set |-> TRUE, of |-> tag.name, idx |-> find_type(tag.name)]
    /\ UNCHANGED <<a, b, last, strVars, ev, tag, ws>>

(***************************************************************************)
(* ws::Client (websockets/client.cpp).  ws.conns holds the connections of  *)
(* the endpoint client_ in the order get_connection created them:          *)
(*   stored    the Connection object was emplaced in connections_,         *)
(*   handlers  the handlers registered on the endpoint connection,         *)
(*   started   client_.connect(ptr) was called,                            *)
(*   phase     "idle", "connecting", "open", "closed" or "failed",         *)
(*   received  a message event was dispatched,                             *)
(*   missed    an event was dispatched with no handler registered for it   *)
(*             or with no Connection object,                               *)
(*   checked   what the destructor found: "unvisited", "ended",            *)
(*             "not_ended" or "threw"; closeFailed: its close threw.       *)
(* ws.pc is the statement of connect the calling thread is about to run    *)
(* (0: not in connect); ws.i the index of the destructor's loop.  The      *)
(* events are dispatched by the thread the constructor starts.             *)
(***************************************************************************)
Handlers == {"open", "fail", "close", "message"}

\* a connection as get_connection returns it
NewConnection ==
    [stored |-> FALSE, handlers |-> {}, started |-> FALSE, phase |-> "idle",
     received |-> FALSE, missed |-> FALSE, checked |-> "unvisited",
     closeFailed |-> FALSE]

\* a connect that starts the connection before registering its handlers
connect_steps_started_early ==
    <<"get_connection", "emplace_back", "connect", "set_open_handler",
      "set_fail_handler", "set_close_handler", "set_message_handler">>

\* the statements of Client::connect, in order
connect_steps ==
    <<"get_connection", "emplace_back", "set_open_handler", "set_fail_handler",
      "set_close_handler", "set_message_handler", "connect">>

\* the effect of one statement of connect on the connection it works on
connect_statement(stmt, c) ==
    CASE stmt = "emplace_back"        -> [c EXCEPT !.stored = TRUE]
      [] stmt = "set_open_handler"    -> [c EXCEPT !.handlers = @ \cup {"open"}]
      [] stmt = "set_fail_handler"    -> [c EXCEPT !.handlers = @ \cup {"fail"}]
      [] stmt = "set_close_handler"   -> [c EXCEPT !.handlers = @ \cup {"close"}]
      [] stmt = "set_message_handler" -> [c EXCEPT !.handlers = @ \cup {"message"}]
      [] stmt = "connect"             -> [c EXCEPT !.started = TRUE,
                                                   !.phase = "connecting"]

\* the dispatch of an event of connection c: the registered handler runs on
\* the Connection object
dispatch(c, event) ==
    [c EXCEPT !.missed = @ \/ event \notin c.handlers \/ ~c.stored]

\* Connection::ended()
ended(c) == c.phase \in {"closed", "failed"}

\* a destructor without the try block: the exception leaves it
dtor_after_failure_leaving(i, n) == [i |-> n + 1, propagated |-> TRUE]

\* ~Client: catch (...) {} inside the loop body: the loop goes on
dtor_after_failure(i, n) == [i |-> i + 1, propagated |-> FALSE]

msgVars == <<a, b, last, strVars, evVars>>

\* Client::Client()
ClientConstruct ==
    /\ ws.state = "none"
    /\ ws' = [ws EXCEPT !.state = "running", !.perpetual = TRUE]
    /\ UNCHANGED msgVars

\* Client::connect: get_connection, which fails with an error (RuntimeError
\* is thrown) or creates the connection
ConnectGet ==
    /\ ws.state = "running" /\ ws.pc = 0
    /\ Len(ws.conns) < MaxConn
    /\ connect_steps[1] = "get_connection"
    /\ \/ ws' = [ws EXCEPT !.thrown = TRUE]
       \/ ws' = [ws EXCEPT !.thrown = FALSE, !.pc = 2,
                           !.conns = Append(@, NewConnection)]
    /\ UNCHANGED msgVars

\* Client::connect: the next statement, on the connection just created
ConnectStep ==
    /\ ws.state = "running" /\ ws.pc >= 2
    /\ LET n == Len(ws.conns) IN
       ws' = [ws EXCEPT
                !.conns[n] = connect_statement(connect_steps[ws.pc], @),
                !.pc = IF ws.pc = Len(connect_steps) THEN 0 ELSE ws.pc + 1]
    /\ UNCHANGED msgVars

\* the thread started by the constructor runs client.run(), which dispatches
\* the events of the connections handed to client_.connect
Running == ws.state \in {"running", "destroying"}

OnOpen ==
    /\ Running
    /\ \E k \in 1..Len(ws.conns) :
          /\ ws.conns[k].started /\ ws.conns[k].phase = "connecting"
          /\ ws' = [ws EXCEPT !.conns[k] =
                        [dispatch(@, "open") EXCEPT !.phase = "open"]]
    /\ UNCHANGED msgVars

OnFail ==
    /\ Running
    /\ \E k \in 1..Len(ws.conns) :
          /\ ws.conns[k].started /\ ws.conns[k].phase = "connecting"
          /\ ws' = [ws EXCEPT !.conns[k] =
                        [dispatch(@, "fail") EXCEPT !.phase = "failed"]]
    /\ UNCHANGED msgVars

OnMessage ==
    /\ Running
    /\ \E k \in 1..Len(ws.conns) :
          /\ ws.conns[k].started /\ ws.conns[k].phase = "open"
          /\ ws' = [ws EXCEPT !.conns[k] =
                        [dispatch(@, "message") EXCEPT !.received = TRUE]]
    /\ UNCHANGED msgVars

OnClose ==
    /\ Running
    /\ \E k \in 1..Len(ws.conns) :
          /\ ws.conns[k].started /\ ws.conns[k].phase = "open"
          /\ ws' = [ws EXCEPT !.conns[k] =
                        [dispatch(@, "close") EXCEPT !.phase = "closed"]]
    /\ UNCHANGED msgVars

\* Client::~Client(): client_.stop_perpetual()
DtorStopPerpetual ==
    /\ ws.state = "running" /\ ws.pc = 0
    /\ ws' = [ws EXCEPT !.state = "destroying", !.perpetual = FALSE, !.i = 1]
    /\ UNCHANGED msgVars

\* ~Client: if (!connection->ended()), which may throw
DtorCheck ==
    /\ ws.state = "destroying" /\ ~ws.closing /\ ~ws.propagated
    /\ ws.i <= Len(ws.conns)
    /\ LET n    == Len(ws.conns)
           next == dtor_after_failure(ws.i, n)
       IN  \/ ws' = [ws EXCEPT !.conns[ws.i].checked = "threw",
                               !.i = next.i, !.propagated = next.propagated]
           \/ /\ ended(ws.conns[ws.i])
              /\ ws' = [ws EXCEPT !.conns[ws.i].checked = "ended", !.i = @ + 1]
           \/ /\ ~ended(ws.conns[ws.i])
              /\ ws' = [ws EXCEPT !.conns[ws.i].checked = "not_ended",
                                  !.closing = TRUE]
    /\ UNCHANGED msgVars

\* ~Client: close(*connection); Client::close throws when client_.close
\* reports an error
DtorClose ==
    /\ ws.state = "destroying" /\ ws.closing
    /\ LET n    == Len(ws.conns)
           next == dtor_after_failure(ws.i, n)
       IN  \/ ws' = [ws EXCEPT !.closeLog = Append(@, ws.i), !.closing = FALSE,
                               !.i = @ + 1]
           \/ ws' = [ws EXCEPT !.closeLog = Append(@, ws.i), !.closing = FALSE,
                               !.conns[ws.i].closeFailed = TRUE,
                               !.i = next.i, !.propagated = next.propagated]
    /\ UNCHANGED msgVars

\* ~Client: the loop is over
DtorEnd ==
    /\ ws.state = "destroying" /\ ~ws.closing /\ ~ws.propagated
    /\ ws.i > Len(ws.conns)
    /\ ws' = [ws EXCEPT !.state = "destroyed"]
    /\ UNCHANGED msgVars

(***************************************************************************)
(* Specifications.                                                         *)
(***************************************************************************)
\* every public operation that changes one Message
Next ==
    \/ DefaultConstruct \/ ConstructChain \/ AssignChain
    \/ ConstructSegment \/ AssignSegment \/ ConstructText \/ AssignText
    \/ AppendText \/ AppendSegment \/ AppendChain \/ SelfAppend
    \/ ChainPushBack \/ IndexWrite

Spec == Init /\ [][Next]_vars

\* two Messages built from Message() by the append operations only
NextAppend ==
    \/ AppendText \/ AppendSegment \/ AppendMessage \/ SelfAppend
    \/ OperandAppendText \/ OperandAppendSegment \/ OperandAppendMessage

SpecAppend == Init /\ [][NextAppend]_vars

\* the const member functions on a Message constructed from a chain
InitQuery ==
    /\ a \in {from_chain(c) : c \in ChainArgs}
    /\ Bounded(a, MaxChain)
    /\ b = <<>> /\ last = NoCall
    /\ sv = <<>> /\ esc = NoEsc /\ ret = NoRet
    /\ ev = 0 /\ tag = NoTag /\ found = NoFound /\ ws = NoClient

NextQuery ==
    \/ EqText \/ TextEq \/ ExtractText \/ StartsWithText \/ StartsWithSegment
    \/ EndsWithText \/ EndsWithSegment \/ ContainsText \/ ContainsSegment

SpecQuery == InitQuery /\ [][NextQuery]_vars

\* match_types on a Message constructed from a chain
InitMatch ==
    /\ a \in {from_chain(c) : c \in MatchChainArgs}
    /\ b = <<>> /\ last = NoCall
    /\ sv = <<>> /\ esc = NoEsc /\ ret = NoRet
    /\ ev = 0 /\ tag = NoTag /\ found = NoFound /\ ws = NoClient

NextMatch == MatchTypes \/ MatchTypesEnum

SpecMatch == InitMatch /\ [][NextMatch]_vars

\* escape and unescape on a string
InitEscape ==
    /\ sv \in StringArgs
    /\ a = <<>> /\ b = <<>> /\ last = NoCall
    /\ esc = NoEsc /\ ret = NoRet
    /\ ev = 0 /\ tag = NoTag /\ found = NoFound /\ ws = NoClient

NextEscape == EscapeCall \/ UnescapeEscaped \/ UnescapeCall

SpecEscape == InitEscape /\ [][NextEscape]_vars

\* one construction or assignment from a chain.  Neither reads the chain_ it
\* replaces, so the call on a default-constructed Message decides every call.
NextConstruct ==
    \/ Fresh /\ ConstructChain
    \/ Fresh /\ AssignChain

SpecConstruct == Init /\ [][NextConstruct]_vars

\* one append to a Message constructed from a chain; += Message takes a
\* second Message, constructed from a chain beforehand
NextAppendOnce ==
    \/ Fresh /\ b = <<>> /\ AppendText
    \/ Fresh /\ b = <<>> /\ AppendSegment
    \/ Fresh /\ b = <<>> /\ AppendChain
    \/ Fresh /\ b = <<>> /\ OperandConstruct
    \/ Fresh /\ AppendMessage

SpecAppendOnce == InitQuery /\ [][NextAppendOnce]_vars

\* stringify on a Message constructed from a chain, and unescape of the result
InitStringify ==
    /\ a \in {from_chain(c) : c \in StringifyArgs}
    /\ Bounded(a, MaxChain)
    /\ b = <<>> /\ last = NoCall
    /\ sv = <<>> /\ esc = NoEsc /\ ret = NoRet
    /\ ev = 0 /\ tag = NoTag /\ found = NoFound /\ ws = NoClient

NextStringify == Stringify \/ UnescapeStringified

SpecStringify == InitStringify /\ [][NextStringify]_vars

\* operator+ on two Messages that satisfy the merge invariant
InitPlus ==
    /\ a \in TermArgs /\ b \in TermArgs /\ last = NoCall
    /\ sv = <<>> /\ esc = NoEsc /\ ret = NoRet
    /\ ev = 0 /\ tag = NoTag /\ found = NoFound /\ ws = NoClient

NextPlus == PlusPlus \/ PlusStringify \/ PlusExtractText

SpecPlus == InitPlus /\ [][NextPlus]_vars

\* one comparison of two segments
NextSegmentEq == SegmentEquals

SpecSegmentEq == Init /\ [][NextSegmentEq]_vars

\* a ws::Client: its construction, connect calls, the events dispatched by
\* its thread, and its destruction
NextClient ==
    \/ ClientConstruct \/ ConnectGet \/ ConnectStep
    \/ OnOpen \/ OnFail \/ OnMessage \/ OnClose
    \/ DtorStopPerpetual \/ DtorCheck \/ DtorClose \/ DtorEnd

SpecClient == Init /\ [][NextClient]_vars

\* the event name table
NextEvent == MakeEvent \/ TypeName \/ FindType

SpecEvent == Init /\ [][NextEvent]_vars

(***************************************************************************)
(* Properties.                                                             *)
(***************************************************************************)
NoAdjacentPlain(chain) ==
    \A i \in 1..(Len(chain) - 1) : ~(is_plain(chain[i]) /\ is_plain(chain[i + 1]))

\* C1: starting from an empty Message, after any sequence of += text,
\* += Segment and += Message (the appended Message built the same way), no
\* two adjacent elements of the chain are both Plain.
MergeInvariant == NoAdjacentPlain(a) /\ NoAdjacentPlain(b)

\* a += Message whose first element was merged into the last element of the
\* target, leaving three elements
MergeAtSeamReached ==
    /\ last.op = "+=message"
    /\ last.pre # <<>> /\ last.arg # <<>>
    /\ is_plain(last.pre[Len(last.pre)]) /\ is_plain(last.arg[1])
    /\ last.arg[1].text # <<>>
    /\ Len(last.arg) = 2
    /\ Len(a) = 3

\* C2: unescape(escape(s)) returns exactly s, for every string s.
EscapeRoundTrip ==
    ret.of = "esc" => (ret.status = "ok" /\ ret.str = sv)

\* C3: ends_with(text) is true iff the chain is non-empty, its last element
\* is Plain and that element's text has text as a suffix.
EndsWithLast ==
    last.op = "ends_with" =>
        last.ret = Ok(/\ a # <<>>
                      /\ is_plain(a[Len(a)])
                      /\ utils_ends_with(a[Len(a)].text, last.arg))

\* C4: ==, starts_with, ends_with, contains and the += overloads complete
\* with a result and never read a segment as an alternative that is not its
\* active one.
OperationsTotal == ~last.ret.fault

\* the claim's malformed inputs: scanning left to right, pair by pair, a
\* lead byte that is the last byte, or one followed by a disallowed byte
RECURSIVE MalformedFrom(_, _)
MalformedFrom(s, offset) ==
    LET pos == find_first_of(s, {"\\", "["}, offset) IN
    IF pos = npos THEN FALSE
    ELSE IF pos = Len(s) - 1 THEN TRUE
    ELSE IF at(s, pos) = "\\" /\ at(s, pos + 1) \notin {"\\", "[", "]"} THEN TRUE
    ELSE IF at(s, pos) = "[" /\ at(s, pos + 1) # "[" THEN TRUE
    ELSE MalformedFrom(s, pos + 2)

Malformed(s) == MalformedFrom(s, 0)

\* C5: unescape fails with the escape error on every malformed input, and
\* neither reads past the end of the input nor returns a string.
MalformedRejected ==
    (ret.of = "sv" /\ Malformed(sv)) =>
        (ret.status = "RuntimeError" /\ ~ret.oob)

\* C6: event_type_names[k] is the non-empty name of the k-th alternative of
\* EventVariant, no two entries are equal, and resolving the name of an
\* alternative yields that alternative.
EventNamesAligned ==
    /\ tag.set =>
          /\ tag.name # ""
          /\ tag.name = EventVariant[tag.of + 1]
    /\ (tag.set /\ found.set /\ found.of = tag.name) => found.idx = tag.of

\* C7: match_types<K0..Kk-1>() with SegmentType values is present iff the
\* chain has exactly k elements and chain[i].kind() = Ki for every i, and then
\* component i refers to chain[i] as the alternative whose kind is Ki.
EnumMatchAgrees ==
    last.op = "match_types(enum)" =>
        LET Ks == last.arg
            r  == last.ret
        IN  /\ r.present <=>
                  /\ Len(a) = Len(Ks)
                  /\ \A i \in 1..Len(Ks) : kind(a[i]) = Ks[i]
            /\ r.present =>
                  /\ Len(r.refs) = Len(Ks)
                  /\ \A i \in 1..Len(Ks) :
                        /\ r.refs[i].idx = i - 1
                        /\ r.refs[i].value = a[i]
                        /\ r.refs[i].as = Variant[IndexOf(SegmentType, Ks[i]) + 1]

\* C8: match_types<T0..Tk-1>() is present iff the chain length is exactly k
\* and the active alternative of chain[i] is exactly Ti for every i; on
\* success component i is a reference to chain[i], in order.
TypedMatchExact ==
    last.op = "match_types" =>
        LET Ts == last.arg
            r  == last.ret
        IN  /\ r.present <=>
                  /\ Len(a) = Len(Ts)
                  /\ \A i \in 1..Len(Ts) : a[i].type = Ts[i]
            /\ r.present =>
                  /\ Len(r.refs) = Len(Ts)
                  /\ \A i \in 1..Len(Ts) :
                        /\ r.refs[i].idx = i - 1
                        /\ r.refs[i].value = a[i]
                        /\ r.refs[i].as = Ts[i]

\* a present match of two elements of different alternatives
TypedMatchReached ==
    /\ last.op = "match_types"
    /\ last.ret.present
    /\ Len(a) = 2
    /\ a[1].type # a[2].type

\* C9: no sequence of public operations on a Message reaches a chain with
\* two adjacent Plain elements.
MutationSafe == NoAdjacentPlain(a)

\* the claim's normal form of a chain: one element per maximal run of Plain
\* (the concatenation of its texts) and one per other segment, in order
RunStarts(chain) ==
    {i \in 1..Len(chain) : ~is_plain(chain[i]) \/ i = 1 \/ ~is_plain(chain[i - 1])}

RunEnd(chain, i) ==
    CHOOSE j \in i..Len(chain) :
        /\ \A k \in i..j : is_plain(chain[k])
        /\ j = Len(chain) \/ ~is_plain(chain[j + 1])

RECURSIVE ConcatTexts(_, _, _)
ConcatTexts(chain, i, j) ==
    IF i > j THEN <<>> ELSE chain[i].text \o ConcatTexts(chain, i + 1, j)

NthStart(chain, k) ==
    CHOOSE i \in RunStarts(chain) :
        Cardinality({j \in RunStarts(chain) : j < i}) = k - 1

Normalized(chain) ==
    [k \in 1..Cardinality(RunStarts(chain)) |->
        LET i == NthStart(chain, k)
        IN  IF is_plain(chain[i])
            THEN Plain(ConcatTexts(chain, i, RunEnd(chain, i)))
            ELSE chain[i]]

\* C10: construction or assignment from a MessageChain replaces every maximal
\* run of Plain by one Plain holding the concatenation, at the position of the
\* run's first segment, keeps the other segments in order, and leaves no two
\* adjacent Plain elements.
ConstructNormalizes ==
    last.op \in {"Message(chain)", "=chain"} =>
        /\ a = Normalized(last.arg)
        /\ NoAdjacentPlain(a)

\* a chain of three whose run of two Plain after another segment was merged
ConstructMergedReached ==
    /\ last.op = "Message(chain)"
    /\ Len(last.arg) = 3
    /\ ~is_plain(last.arg[1])
    /\ is_plain(last.arg[2]) /\ last.arg[2].text # <<>>
    /\ is_plain(last.arg[3]) /\ last.arg[3].text # <<>>
    /\ Len(a) = 2

\* C11: m += segment (or m += text) concatenates the incoming text onto the
\* last element iff the incoming segment is Plain, m is non-empty and m's last
\* element is Plain, and then the length is unchanged; otherwise exactly one
\* element equal to the incoming segment is pushed.  In both cases every
\* element before the last element of the old chain is unchanged.
SingleAppendRule ==
    last.op \in {"+=text", "+=segment"} =>
        LET m     == last.pre
            seg   == IF last.op = "+=text" THEN Plain(last.arg) ELSE last.arg
            merge == is_plain(seg) /\ m # <<>> /\ is_plain(m[Len(m)])
        IN  /\ IF merge
               THEN /\ Len(a) = Len(m)
                    /\ a[Len(a)] = Plain(m[Len(m)].text \o seg.text)
               ELSE /\ Len(a) = Len(m) + 1
                    /\ a[Len(a)] = seg
            /\ \A i \in 1..(Len(m) - 1) : a[i] = m[i]

\* a Plain segment concatenated onto the last of two elements, both texts
\* non-empty
SingleAppendMergedReached ==
    /\ last.op = "+=segment"
    /\ Len(last.pre) = 2
    /\ is_plain(last.pre[2]) /\ last.pre[2].text # <<>>
    /\ is_plain(last.arg) /\ last.arg.text # <<>>
    /\ Len(a) = 2

EncodeChar(c) ==
    CASE c = "\\" -> <<"\\", "\\">>
      [] c = "["  -> <<"\\", "[">>
      [] c = "]"  -> <<"\\", "]">>
      [] c = "{"  -> <<"[", "[">>
      [] c = "}"  -> <<"]", "]">>
      [] OTHER    -> <<c>>

RECURSIVE EncodeAll(_)
EncodeAll(s) == IF s = <<>> THEN <<>> ELSE EncodeChar(Head(s)) \o EncodeAll(Tail(s))

\* C13: escape(s) is the in-order concatenation of the encodings of the
\* characters of s: \ -> \\, [ -> \[, ] -> \], { -> [[, } -> ]], every other
\* character copied unchanged.
EscapeCharwise == esc.set => esc.str = EncodeAll(sv)

\* escape of a string of three: an ordinary character between two encoded ones
EscapeMixedReached ==
    /\ esc.set
    /\ Len(sv) = 3
    /\ sv[1] \in EscapeSet /\ sv[2] \notin EscapeSet /\ sv[3] \in EscapeSet
    /\ sv[1] # sv[3]
    /\ Len(esc.str) = 5

\* C14: escape is injective: escape(s) = escape(t) implies s = t.
EscapeInjective ==
    esc.set => \A t \in StringArgs : escape(t) = esc.str => t = sv

\* escape of a string holding a brace and a bracket, whose encodings share
\* the character [
EscapeSharedBracketReached ==
    /\ esc.set
    /\ \E i, j \in 1..Len(sv) : sv[i] = "{" /\ sv[j] = "["

\* C15: the output of escape never contains { or }.
EscapeNoBraces ==
    esc.set => \A i \in 1..Len(esc.str) : esc.str[i] \notin {"{", "}"}

\* escape of a string holding both braces
EscapeBracesReached ==
    /\ esc.set
    /\ \E i, j \in 1..Len(sv) : sv[i] = "{" /\ sv[j] = "}"

\* C16: m == s (and s == m) is true iff m's chain has exactly one element,
\* that element is Plain and its text equals s; a Message whose chain is empty
\* or holds a segment that is not Plain is unequal to every string.
TextEqualityExact ==
    last.op \in {"==text", "text=="} =>
        last.ret = Ok(/\ Len(a) = 1
                      /\ is_plain(a[1])
                      /\ a[1].text = last.arg)

\* a string compared with a Message of two elements whose front is a Plain
\* holding that string
TextEqualityLongerReached ==
    /\ last.op = "text=="
    /\ Len(a) = 2
    /\ is_plain(a[1]) /\ a[1].text = last.arg /\ last.arg # <<>>
    /\ ~last.ret.val

\* p is a prefix / a suffix / a substring of s
IsPrefix(p, s) == \E r \in 0..Len(s) : s = p \o SubSeq(s, Len(s) - r + 1, Len(s))
IsSuffix(p, s) == \E r \in 0..Len(s) : s = SubSeq(s, 1, r) \o p
IsSubstring(p, s) ==
    \E i, j \in 0..Len(s) : s = SubSeq(s, 1, i) \o p \o SubSeq(s, Len(s) - j + 1, Len(s))

\* C17: starts_with(text) is true iff the chain is non-empty, its first
\* element is Plain and that element's text has text as a prefix; a Message
\* whose first element is not Plain starts with no text.
StartsWithFirst ==
    last.op = "starts_with" =>
        last.ret = Ok(/\ a # <<>>
                      /\ is_plain(a[1])
                      /\ IsPrefix(last.arg, a[1].text))

\* a proper, non-empty prefix of the front text of a Message of two elements
StartsWithProperPrefixReached ==
    /\ last.op = "starts_with"
    /\ Len(a) = 2 /\ is_plain(a[1])
    /\ last.arg # <<>> /\ Len(last.arg) < Len(a[1].text)
    /\ last.ret.val

\* C18: the Segment overloads of starts_with / ends_with / contains: for a
\* Plain argument the result is that of the text overload applied to its
\* text; for any other argument the result is true iff the chain is non-empty
\* and its first element (starts_with), its last element (ends_with) or some
\* element (contains) equals the argument by segment equality.
SegmentOverloads ==
    LET seg == last.arg IN
    /\ last.op = "starts_with(segment)" =>
          last.ret = IF is_plain(seg) THEN starts_with(a, seg.text)
                     ELSE Ok(a # <<>> /\ SegmentEq(a[1], seg))
    /\ last.op = "ends_with(segment)" =>
          last.ret = IF is_plain(seg) THEN ends_with(a, seg.text)
                     ELSE Ok(a # <<>> /\ SegmentEq(a[Len(a)], seg))
    /\ last.op = "contains(segment)" =>
          last.ret = IF is_plain(seg) THEN contains(a, seg.text)
                     ELSE Ok(a # <<>> /\ \E i \in 1..Len(a) : SegmentEq(a[i], seg))

\* ends_with of a mention that equals the last of two elements by segment
\* equality without being the same value, the front being another segment
SegmentEndsWithReached ==
    /\ last.op = "ends_with(segment)"
    /\ ~is_plain(last.arg)
    /\ Len(a) = 2
    /\ a[2] # last.arg /\ SegmentEq(a[2], last.arg)
    /\ ~SegmentEq(a[1], last.arg)
    /\ last.ret.val

\* the messages that differ from m only in segments that are not Plain: a
\* segment that is not Plain replaced by one unequal to it, or one more such
\* segment in front or at the back
RECURSIVE Replaced(_)
Replaced(m) ==
    IF m = <<>> THEN {<<>>}
    ELSE {<<h>> \o t : h \in (IF is_plain(m[1]) THEN {m[1]} ELSE NonPlainArgs),
                        t \in Replaced(Tail(m))}

DifferInNonPlain(m) ==
    {v \in Replaced(m) : \E i \in 1..Len(m) : ~SegmentEq(m[i], v[i])}
        \cup {<<n>> \o m : n \in NonPlainArgs}
        \cup {m \o <<n>> : n \in NonPlainArgs}

\* C19: extract_text() is the concatenation, in chain order, of the text of
\* every Plain segment, with nothing for the other segments; so two messages
\* that differ only in segments that are not Plain have equal extract_text()
\* while they compare unequal with ==.
ExtractTextPlainOnly ==
    last.op = "extract_text" =>
        LET plains == SelectSeq(a, is_plain) IN
        /\ last.ret = Ok(ConcatTexts(plains, 1, Len(plains)))
        /\ \A v \in DifferInNonPlain(a) :
              /\ extract_text(v) = last.ret.val
              /\ ~MessageEq(a, v)

\* extract_text of two Plain around a mention, both texts non-empty
ExtractAroundMentionReached ==
    /\ last.op = "extract_text"
    /\ Len(a) = 3
    /\ is_plain(a[1]) /\ ~is_plain(a[2]) /\ is_plain(a[3])
    /\ a[1].text # <<>> /\ a[3].text # <<>> /\ a[1].text # a[3].text
    /\ Len(last.ret.val) = 2

\* the claim's string of a segment and of a chain: a Plain gives the encoding
\* of its text character by character, another segment its reference block
RECURSIVE StringOfSegments(_)
StringOfSegments(chain) ==
    IF chain = <<>> THEN <<>>
    ELSE (IF is_plain(chain[1]) THEN EncodeAll(chain[1].text)
          ELSE segment_stringify(chain[1])) \o StringOfSegments(Tail(chain))

\* stringify() is the concatenation, in chain order, of the segments' strings
StringifyConcat ==
    last.op = "stringify" => last.ret = Ok(StringOfSegments(a))

\* C20: stringify() is the concatenation, in chain order, of each segment's
\* own stringify(), a Plain giving escape(text); for a Message of a single
\* Plain, stringify() = escape(text) and unescape(stringify()) returns the
\* original text.
StringifyRoundTrip ==
    /\ StringifyConcat
    /\ (last.op = "stringify" /\ Len(a) = 1 /\ is_plain(a[1])) =>
          last.ret.val = escape(a[1].text)
    /\ (ret.of = "stringify" /\ Len(a) = 1 /\ is_plain(a[1])) =>
          (ret.status = "ok" /\ ret.str = a[1].text)

\* the identifying fields of Image / FlashImage in priority order, and those
\* populated on both sides
ImageFields == <<"image_id", "url", "path">>
CommonFields(x, y) == {k \in 1..Len(ImageFields) :
                          x[ImageFields[k]] # <<>> /\ y[ImageFields[k]] # <<>>}
FirstCommon(x, y) ==
    ImageFields[CHOOSE k \in CommonFields(x, y) : \A j \in CommonFields(x, y) : k <= j]
IsImagePair(x, y) == x.type = y.type /\ x.type \in {"Image", "FlashImage"}

\* with a field populated on both sides, the values are equal iff the values
\* of the first such field are equal
ImageEqByCommonField ==
    last.op = "segment==" =>
        LET x == last.arg[1]
            y == last.arg[2]
        IN  (IsImagePair(x, y) /\ CommonFields(x, y) # {}) =>
                last.ret = Ok(x[FirstCommon(x, y)] = y[FirstCommon(x, y)])

\* C21: Image and FlashImage equality is decided by the highest-priority
\* field populated on both sides, in the order image_id, url, path: the values
\* are equal iff that field's values are equal, and a field populated on only
\* one side is not used: pairs that have the same fields populated on both
\* sides, with the same values there, compare alike.
ImageEqIgnoresOneSided ==
    /\ ImageEqByCommonField
    /\ last.op = "segment==" =>
          LET x == last.arg[1]
              y == last.arg[2]
          IN  IsImagePair(x, y) =>
                 \A x2 \in ImageArgs, y2 \in ImageArgs :
                    (/\ CommonFields(x2, y2) = CommonFields(x, y)
                     /\ \A k \in CommonFields(x, y) :
                           /\ x2[ImageFields[k]] = x[ImageFields[k]]
                           /\ y2[ImageFields[k]] = y[ImageFields[k]])
                    => ImageEq(x2, y2) = last.ret.val

\* C22: m += m leaves m equal to its previous value followed by its previous
\* value, merged at the seam only (the result of copy = m; m += copy); no
\* element of the old chain is appended more than once.
SelfAppendDoubles ==
    last.op = "+=self" =>
        /\ a = append_chain(last.pre, last.pre)
        /\ Len(a) <= 2 * Len(last.pre)

\* C23: m += "" leaves m equal (==) to its previous value and adds no
\* segment, for every Message m, the empty one and those whose last element
\* is not Plain included.
EmptyTextIdentity ==
    (last.op = "+=text" /\ last.arg = <<>>) =>
        /\ Len(a) = Len(last.pre)
        /\ MessageEq(a, last.pre)

\* C24: on Messages that satisfy the merge invariant, (a + b) + c == a + (b + c),
\* a + Message() == a and Message() + a == a, and a + b leaves a and b
\* unchanged.
PlusLaws ==
    /\ MessageEq(plus(a, <<>>), a)
    /\ MessageEq(plus(<<>>, a), a)
    /\ last.op = "(a+b)+c" =>
          MessageEq(last.ret.val, plus(a, plus(b, last.arg)))

PlusKeepsOperands == (last'.op = "(a+b)+c") => (a' = a /\ b' = b)

PlusMonoid == []PlusLaws /\ [][PlusKeepsOperands]_vars

\* (a + b) + c with a merge at both seams: b is one Plain between a Plain at
\* the back of a and a Plain at the front of c
PlusTwoSeamsReached ==
    /\ last.op = "(a+b)+c"
    /\ Len(a) = 2 /\ is_plain(a[2]) /\ a[2].text # <<>>
    /\ Len(b) = 1 /\ is_plain(b[1]) /\ b[1].text # <<>> /\ b[1].text # a[2].text
    /\ Len(last.arg) = 2 /\ is_plain(last.arg[1]) /\ last.arg[1].text # <<>>
    /\ Len(last.ret.val) = 3

\* C25: (a + b).stringify() == a.stringify() + b.stringify() and
\* (a + b).extract_text() == a.extract_text() + b.extract_text(), whether or
\* not the seam was merged.
PlusDistributes ==
    /\ last.op = "(a+b).stringify()" =>
          last.ret.val = stringify(a) \o stringify(b)
    /\ last.op = "(a+b).extract_text()" =>
          last.ret.val = extract_text(a) \o extract_text(b)

\* the string of a sum whose seam was merged: a ends in a Plain holding a
\* brace, b starts with a Plain and goes on with a mention
PlusStringifySeamReached ==
    /\ last.op = "(a+b).stringify()"
    /\ Len(a) = 2 /\ is_plain(a[2]) /\ a[2].text = <<"{">>
    /\ Len(b) = 2 /\ is_plain(b[1]) /\ b[1].text = <<"a">>
    /\ Len(last.ret.val) > Len(extract_text(a)) + Len(extract_text(b))

\* C26: for every string s, unescape(escape(s)) returns a string: it does not
\* throw the escape error, and it reads nothing outside its argument.
EscapeImageAccepted ==
    ret.of = "esc" => (ret.status = "ok" /\ ~ret.oob)

\* unescape of the image of a string of three holding a backslash and an
\* opening bracket
EscapeImageLeadsReached ==
    /\ ret.of = "esc"
    /\ Len(sv) = 3 /\ Len(esc.str) >= 5
    /\ \E i, j \in 1..Len(sv) : sv[i] = "\\" /\ sv[j] = "["
    /\ ret.status = "ok"

\* == of segments is reflexive and symmetric
SegmentEqSymmetric ==
    last.op = "segment==" =>
        LET x == last.arg[1]
            y == last.arg[2]
        IN  /\ SegmentEq(x, x)
            /\ last.ret.val => SegmentEq(y, x)

\* C27: segment equality is an equivalence relation on every alternative:
\* x == x, x == y implies y == x, and x == y with y == z implies x == z.
SegmentEqEquivalence ==
    /\ SegmentEqSymmetric
    /\ last.op = "segment==" =>
          LET x == last.arg[1]
              y == last.arg[2]
          IN  \A z \in EqArgs :
                 (last.ret.val /\ SegmentEq(y, z)) => SegmentEq(x, z)

\* C28: in Client::connect the Connection object is stored in connections_
\* and the open, fail, close and message handlers are registered before the
\* connection attempt is started, so no event of a connection is dispatched
\* before its handler is set and its Connection object exists.
HandlersBeforeStart ==
    \A k \in 1..Len(ws.conns) :
        /\ ws.conns[k].started =>
              (ws.conns[k].stored /\ ws.conns[k].handlers = Handlers)
        /\ ~ws.conns[k].missed

\* a message dispatched on the first connection while connect is registering
\* the handlers of the second
MessageDuringConnectReached ==
    /\ Len(ws.conns) = 2
    /\ ws.conns[1].received
    /\ ws.pc > 2 /\ ~ws.conns[2].started
    /\ ws.conns[2].handlers # {} /\ ws.conns[2].handlers # Handlers

\* C29: the destructor stops perpetual mode first, then requests the close of
\* every connection of connections_ that has not ended, in insertion order; a
\* failure while checking or closing one connection is swallowed and does not
\* prevent the attempt on a later one, and the destructor propagates no error.
DtorClosesAll ==
    /\ ~ws.propagated
    /\ ws.closeLog # <<>> => ~ws.perpetual
    /\ \A j, k \in 1..Len(ws.closeLog) : j < k => ws.closeLog[j] < ws.closeLog[k]
    /\ \A k \in 1..Len(ws.conns) :
          /\ (ws.state = "destroying" /\ k < ws.i) =>
                ws.conns[k].checked # "unvisited"
          /\ ws.state = "destroyed" =>
                /\ ws.conns[k].checked # "unvisited"
                /\ ws.conns[k].checked = "not_ended" =>
                      \E j \in 1..Len(ws.closeLog) : ws.closeLog[j] = k
          /\ (\E j \in 1..Len(ws.closeLog) : ws.closeLog[j] = k) =>
                ws.conns[k].checked = "not_ended"

\* a destructor that is over: the check of the first connection threw, the
\* close of the second was requested
DtorAfterFailureReached ==
    /\ ws.state = "destroyed"
    /\ Len(ws.conns) = 2
    /\ ws.conns[1].checked = "threw"
    /\ ws.closeLog = <<2>>

====
